---- MODULE Spec2Model ----
(***************************************************************************)
(* Explode engine of the 3D gallery viewer.                                *)
(*                                                                         *)
(* Three generations of the ExplodableModel component are modelled here:   *)
(*   "clone"   src/app/p/[slug]/ViewerClient.tsx, lines 369-724: the       *)
(*             original scene is kept and an exploded clone is built by an *)
(*             effect and repositioned by a frame callback;                *)
(*   "inplace" unnamed/part_001, lines 61-314: createExplodeEffect mutates *)
(*             the loaded root in place;                                   *)
(*   "simple"  src/app/p/[slug]/ViewerClient.tsx, lines 16-63: an effect   *)
(*             records startPos and dir on every mesh of the root and a    *)
(*             frame callback moves the meshes for the slider value k.     *)
(* Which generation is mounted is chosen in Init (variable viewer).        *)
(*                                                                         *)
(* Units.  Lengths are integers in thousandths of a scene unit, amounts    *)
(* are integers in hundredths (the sliders step by 0.01).  All geometry of *)
(* the scene catalogue lies on the x axis, where Vector3.normalize is      *)
(* exact: the unit vector is the vector of signs.  Box centres are kept    *)
(* doubled (min + max) so that they stay integers.                         *)
(***************************************************************************)
EXTENDS Integers, Sequences, FiniteSets, TLC

VARIABLES
    viewer,            \* which generation of ExplodableModel is mounted
    scene,             \* the loaded asset (name in the scene catalogue)
    loads,             \* number of asset changes so far
    changes,           \* number of user interactions so far
    \* ---- clone-based viewer: props
    explode,           \* prop explode
    amount,            \* prop amount, hundredths
    subdivisionParts,  \* prop subdivisionParts
    \* ---- clone-based viewer: React state and refs
    explodedGroup,     \* useState: the exploded clone of the committed render
    queuedGroup,       \* setExplodedGroup value not yet rendered
    effectPending,     \* the build effect is scheduled (its deps changed)
    lastChange,        \* which dependency changed in the last commit
    safeMatCache,      \* ref: source material -> safe material
    createdMatsRef,    \* ref: materials created by toSafeMaterial
    createdGeomsRef,   \* ref: geometries registered for disposal
    prevAmount,        \* ref: amount seen by the last update
    epoch,             \* number of runs of the build effect (names new objects)
    \* ---- resources, as the renderer sees them
    disposedGeoms,     \* geometries on which dispose() has been called
    disposedMats,      \* materials on which dispose() has been called
    extractedGeoms,    \* geometries the engine has made for parts of a clone
    convertedMats,     \* materials toSafeMaterial has created so far
    \* ---- in-place viewer
    k,                 \* prop k, hundredths
    rootMeshes,        \* the meshes under root, in traversal order
    explodePending,    \* the explode effect is scheduled
    explodeCalls,      \* number of runs of createExplodeEffect on this root
    boundsTrees,       \* geometries that hold a bounds tree (picking index)
    \* ---- simple slider viewer (with k, rootMeshes, explodePending, boundsTrees)
    prev,              \* ref prev: the k the frame callback applied last
    \* ---- the component
    lifecycle,         \* "mounted", "unmounted", or "thrown" after an effect threw
    \* ---- normalization of the root
    settings,          \* prop settings: the object (id) and its yUp and scale
    rootTurns,         \* number of rotateX(-PI / 2) calls on the current root
    rootScale,         \* scale of the current root
    normalizePending   \* the normalization effect is scheduled

vars == <<viewer, scene, loads, changes, explode, amount, subdivisionParts,
          explodedGroup, queuedGroup, effectPending, lastChange, safeMatCache,
          createdMatsRef, createdGeomsRef, prevAmount, epoch, disposedGeoms,
          disposedMats, extractedGeoms, convertedMats, k, rootMeshes,
          explodePending, explodeCalls, boundsTrees, prev, lifecycle, settings,
          rootTurns, rootScale, normalizePending>>

cloneVars == <<explode, amount, subdivisionParts, explodedGroup, queuedGroup,
               effectPending, lastChange, safeMatCache, createdMatsRef,
               createdGeomsRef, prevAmount, epoch, disposedGeoms, disposedMats,
               extractedGeoms, convertedMats>>

inplaceVars == <<k, rootMeshes, explodePending, explodeCalls, boundsTrees>>

simpleVars == <<prev>>

poseVars == <<settings, rootTurns, rootScale, normalizePending>>

engineVars == <<explode, amount, subdivisionParts, explodedGroup, queuedGroup,
                effectPending, lastChange, safeMatCache, createdMatsRef,
                createdGeomsRef, prevAmount, epoch, disposedGeoms, disposedMats,
                extractedGeoms, convertedMats, k, explodePending, explodeCalls,
                boundsTrees, prev>>

----------------------------------------------------------------------------
(* Bounds of the model *)

\* slider positions above zero that are sampled
AmountTicks == 2
\* asset changes in one run
MaxLoads == 1
\* user interactions in one run
MaxChanges == 3
\* largest value of the Parts slider that is sampled below the default
MaxPartsSampled == 2
\* updates of the settings prop in one run
MaxSettings == 2

(* Program constants *)

\* <input type="range" min={2}> of the Parts slider
MinParts == 2
\* <input type="range" max={8}> of the Parts slider
MaxParts == 8
\* useState(4): initial subdivisionParts
DefaultParts == 4
\* subdivideMesh(mesh, 4)
InplaceParts == 4
\* useState(1.0): initial amount, hundredths
DefaultAmount == 100
\* one hundredth of amount, in thousandths of a scene unit
AmountUnit == 10
\* scale of gltf.scene.clone(true) before the normalization
LoadedScale == 1

\* the generations of ExplodableModel
Viewers == {"clone", "inplace", "simple"}

Amounts == {(i * 100) \div AmountTicks : i \in 0..AmountTicks}
PartsChoices == (MinParts..MaxPartsSampled) \cup {DefaultParts, MaxParts}

----------------------------------------------------------------------------
(* Vectors *)

Zero3 == <<0, 0, 0>>
VAdd(a, b) == <<a[1] + b[1], a[2] + b[2], a[3] + b[3]>>
VSub(a, b) == <<a[1] - b[1], a[2] - b[2], a[3] - b[3]>>
VScale(a, n) == <<a[1] * n, a[2] * n, a[3] * n>>
Sgn(n) == IF n > 0 THEN 1 ELSE IF n < 0 THEN -1 ELSE 0
LengthSq(a) == a[1] * a[1] + a[2] * a[2] + a[3] * a[3]

\* Vector3.normalize: divideScalar(length() || 1).  Exact for the axis-aligned
\* vectors of the catalogue; the zero vector stays zero.
Normalize(a) == <<Sgn(a[1]), Sgn(a[2]), Sgn(a[3])>>

\* Vector3.addScaledVector(dir, s)
AddScaledVector(p, dir, s) == VAdd(p, VScale(dir, s))

Min2(a, b) == IF a < b THEN a ELSE b
Max2(a, b) == IF a > b THEN a ELSE b
SetMin(S) == CHOOSE x \in S : \A y \in S : x <= y
SetMax(S) == CHOOSE x \in S : \A y \in S : x >= y
Range(s) == {s[i] : i \in DOMAIN s}
CeilDiv(a, b) == (a + b - 1) \div b

----------------------------------------------------------------------------
(* Boxes (THREE.Box3) *)

EmptyBox == [empty |-> TRUE, min |-> Zero3, max |-> Zero3]

BoxOfPoints(P) ==
    IF P = {} THEN EmptyBox
    ELSE [empty |-> FALSE,
          min |-> <<SetMin({p[1] : p \in P}), SetMin({p[2] : p \in P}),
                    SetMin({p[3] : p \in P})>>,
          max |-> <<SetMax({p[1] : p \in P}), SetMax({p[2] : p \in P}),
                    SetMax({p[3] : p \in P})>>]

BoxUnion(a, b) ==
    IF a.empty THEN b
    ELSE IF b.empty THEN a
    ELSE [empty |-> FALSE,
          min |-> <<Min2(a.min[1], b.min[1]), Min2(a.min[2], b.min[2]),
                    Min2(a.min[3], b.min[3])>>,
          max |-> <<Max2(a.max[1], b.max[1]), Max2(a.max[2], b.max[2]),
                    Max2(a.max[3], b.max[3])>>]

BoxTranslate(b, v) ==
    IF b.empty THEN b
    ELSE [empty |-> FALSE, min |-> VAdd(b.min, v), max |-> VAdd(b.max, v)]

\* Box3.getCenter, doubled: (min + max); the zero vector for an empty box
Center2(b) == IF b.empty THEN Zero3 ELSE VAdd(b.min, b.max)

\* Box3.getSize
BoxSize(b) == IF b.empty THEN Zero3 ELSE VSub(b.max, b.min)

----------------------------------------------------------------------------
(* Geometries, materials, meshes *)

X(x) == <<x, 0, 0>>

\* identities: a pair <<kind, serial>>
OrigGeom(n) == <<"geometry", 0, n>>
OrigMat(n) == <<"material", 0, n>>
NewGeom(e, n) == <<"geometry", e, n>>
SafeMat(e, n) == <<"material", e, n>>
IsOriginal(id) == id[2] = 0

\* BufferGeometry.getAttribute(name) !== undefined
HasAttr(g, name) == name \in DOMAIN g.attrs

\* BufferAttribute.count of the position attribute
PositionCount(g) == Len(g.attrs.position)

\* BufferGeometry.computeBoundingBox: the box of every position vertex
GeometryBox(g) ==
    IF HasAttr(g, "position") THEN BoxOfPoints(Range(g.attrs.position))
    ELSE EmptyBox

\* userData before the engine wrote to it; branch names the build branch that
\* made a part ("source" for a mesh of the loaded asset)
NoUserData == [set |-> FALSE, basePos |-> Zero3, dir |-> Zero3]

\* new THREE.Mesh(geometry, material) at a position; a single material is a
\* sequence of length one.  quaternion is "identity" or "turnY", the half turn
\* about the y axis.  A THREE.Mesh is not a skinned mesh and has no skeleton.
Mesh(g, mat, pos) ==
    [geometry |-> g, material |-> mat, position |-> pos, quaternion |-> "identity",
     userData |-> NoUserData, branch |-> "source",
     isSkinnedMesh |-> FALSE, skeleton |-> "none"]

\* a THREE.SkinnedMesh of the asset, bound to a skeleton
Skinned(m, skeleton) == [m EXCEPT !.isSkinnedMesh = TRUE, !.skeleton = skeleton]

\* a mesh of the asset whose node is rotated by a half turn about y
Turned(m) == [m EXCEPT !.quaternion = "turnY"]

\* position.copy(src.position); quaternion.copy(src.quaternion) on a new mesh
MeshLike(g, mat, src) ==
    [Mesh(g, mat, src.position) EXCEPT !.quaternion = src.quaternion]

\* a box under a rotation: the half turn about y maps x to -x and z to -z
BoxRotate(b, q) ==
    IF b.empty \/ q = "identity" THEN b
    ELSE [empty |-> FALSE,
          min |-> <<-b.max[1], b.min[2], -b.max[3]>>,
          max |-> <<-b.min[1], b.max[2], -b.min[3]>>]

\* Box3.setFromObject(mesh): the geometry box under the mesh's rotation and
\* translation
MeshBox(m) == BoxTranslate(BoxRotate(GeometryBox(m.geometry), m.quaternion), m.position)

RECURSIVE BoxOfMeshes(_)
\* Box3.setFromObject(root): the union over the meshes below root
BoxOfMeshes(ms) ==
    IF ms = <<>> THEN EmptyBox
    ELSE BoxUnion(MeshBox(Head(ms)), BoxOfMeshes(Tail(ms)))

\* item size of an attribute of a decoded asset: uv is a VEC2 accessor, the
\* skinning attributes are VEC4, position and normal VEC3
SourceItemSize(a) ==
    IF a = "uv" THEN 2 ELSE IF a \in {"skinIndex", "skinWeight"} THEN 4 ELSE 3

Geometry(n, attrs, indexed, index, groups) ==
    [id |-> OrigGeom(n), attrs |-> attrs,
     itemSize |-> [a \in DOMAIN attrs |-> SourceItemSize(a)],
     indexed |-> indexed, index |-> index, groups |-> groups]

\* a group { start, count, materialIndex }; materialIndex is kept as a
\* sequence, empty when the group carries none
Group(start, count, materialIndex) ==
    [start |-> start, count |-> count, materialIndex |-> <<materialIndex>>]

\* a group { start, count } without a materialIndex
GroupNoIndex(start, count) ==
    [start |-> start, count |-> count, materialIndex |-> <<>>]

Xs(xs) == [i \in DOMAIN xs |-> X(xs[i])]
Tags(base, n) == [i \in 1..n |-> base + i]

(* The scene catalogue: the decoded assets the loader may hand over. *)
SceneNames == {"pair", "grouped", "plain", "lone", "skewed", "empty", "single",
               "bare", "strip", "turned", "hollow"}

\* two meshes at (-1,0,0) and (1,0,0) sharing one material; the second is
\* skinned and its geometry declares two groups
ScenePair ==
    << Mesh(Geometry(1, [position |-> Xs(<<-100, 0, 100>>), normal |-> Tags(10, 3)],
                     TRUE, <<0, 1, 2>>, <<>>),
            <<OrigMat(1)>>, X(-1000)),
       Skinned(Mesh(Geometry(2, [position |-> Xs(<<-100, 0, 100>>),
                                 normal |-> Tags(20, 3)],
                             TRUE, <<0, 1, 2, 2, 1, 0>>,
                             <<Group(0, 3, 0), Group(3, 3, 0)>>),
                    <<OrigMat(1)>>, X(1000)),
               "rig") >>

\* one skinned mesh, two material groups sharing vertex 2
SceneGrouped ==
    << Skinned(Mesh(Geometry(3, [position |-> Xs(<<-300, -200, -100, 100, 200>>),
                                 normal |-> Tags(30, 5), uv |-> Tags(40, 5),
                                 skinIndex |-> Tags(60, 5),
                                 skinWeight |-> Tags(70, 5)],
                             TRUE, <<0, 1, 2, 2, 3, 4>>,
                             <<Group(0, 3, 0), Group(3, 3, 1)>>),
                    <<OrigMat(1), OrigMat(2)>>, X(0)),
               "bones") >>

\* one mesh without groups, not indexed, two separate triangles
ScenePlain ==
    << Mesh(Geometry(4, [position |-> Xs(<<300, 200, 100, -100, -200, -300>>),
                         uv |-> Tags(50, 6)],
                     FALSE, <<>>, <<>>),
            <<OrigMat(2)>>, X(500)) >>

\* one mesh without groups: one triangle and three loose vertices
SceneLone ==
    << Mesh(Geometry(5, [position |-> Xs(<<0, 100, 200, 300, 400, 500>>)],
                     TRUE, <<0, 1, 2>>, <<>>),
            <<OrigMat(1)>>, X(0)) >>

\* a long mesh and a short one at its left end, two materials
SceneSkewed ==
    << Mesh(Geometry(6, [position |-> Xs(<<0, 500, 1000>>)],
                     TRUE, <<0, 1, 2>>, <<>>),
            <<OrigMat(1)>>, X(0)),
       Mesh(Geometry(7, [position |-> Xs(<<0, 50, 100>>)],
                     TRUE, <<0, 1, 2>>, <<>>),
            <<OrigMat(2)>>, X(0)) >>

\* a scene without meshes
SceneEmpty == << >>

\* one mesh with one group that covers the whole index
SceneSingle ==
    << Mesh(Geometry(8, [position |-> Xs(<<-100, 0, 100>>)],
                     TRUE, <<0, 1, 2>>, <<Group(0, 3, 0)>>),
            <<OrigMat(1)>>, X(0)) >>

\* one mesh with two groups whose geometry has no position attribute
SceneBare ==
    << Mesh(Geometry(9, [normal |-> Tags(80, 4)],
                     TRUE, <<0, 1, 2, 1, 2, 3>>, <<Group(0, 3, 0), Group(3, 3, 0)>>),
            <<OrigMat(1)>>, X(0)) >>

\* one mesh without groups: eight vertices in three triangles
SceneStrip ==
    << Mesh(Geometry(10, [position |-> Xs(<<0, 100, 200, 300, 400, 500, 600, 700>>),
                          normal |-> Tags(90, 8)],
                     TRUE, <<0, 1, 2, 3, 4, 5, 5, 6, 7>>, <<>>),
            <<OrigMat(1)>>, X(0)) >>

\* one mesh with two groups far apart, its node turned about y; the first
\* group names a material slot the mesh does not have, the second names none
SceneTurned ==
    << Turned(Mesh(Geometry(11, [position |-> Xs(<<-1000, -800, -600, 600, 800, 1000>>)],
                            TRUE, <<0, 1, 2, 3, 4, 5>>,
                            <<Group(0, 3, 7), GroupNoIndex(3, 3)>>),
                   <<OrigMat(1), OrigMat(2)>>, X(0))) >>

\* one mesh without groups whose geometry has no position attribute
SceneHollow ==
    << Mesh(Geometry(12, [normal |-> Tags(100, 3)],
                     TRUE, <<0, 1, 2>>, <<>>),
            <<OrigMat(1)>>, X(0)) >>

SceneMeshes(name) ==
    CASE name = "pair" -> ScenePair
      [] name = "grouped" -> SceneGrouped
      [] name = "plain" -> ScenePlain
      [] name = "lone" -> SceneLone
      [] name = "skewed" -> SceneSkewed
      [] name = "empty" -> SceneEmpty
      [] name = "single" -> SceneSingle
      [] name = "bare" -> SceneBare
      [] name = "strip" -> SceneStrip
      [] name = "turned" -> SceneTurned
      [] name = "hollow" -> SceneHollow

\* the asset the page shows after an asset change: the next of the catalogue
NextScene(name) ==
    CASE name = "pair" -> "grouped"
      [] name = "grouped" -> "plain"
      [] name = "plain" -> "lone"
      [] name = "lone" -> "skewed"
      [] name = "skewed" -> "empty"
      [] name = "empty" -> "single"
      [] name = "single" -> "bare"
      [] name = "bare" -> "strip"
      [] name = "strip" -> "turned"
      [] name = "turned" -> "hollow"
      [] name = "hollow" -> "pair"

----------------------------------------------------------------------------
(* Sub-geometry extraction *)

\* position of the first occurrence of v in the selection
FirstPos(sel, v) == SetMin({i \in DOMAIN sel : sel[i] = v})

\* vertexMap.get(v): the number of distinct vertices seen before v
NewIndexOf(sel, v) ==
    Cardinality({u \in Range(sel) : FirstPos(sel, u) < FirstPos(sel, v)})

\* the source vertices of the selection in first-seen order
VertexOrder(sel) ==
    [j \in 1..Cardinality(Range(sel)) |->
        CHOOSE v \in Range(sel) : NewIndexOf(sel, v) = j - 1]

\* newIndices that keep the source indices
NewIndicesUnmapped(sel) == sel

\* newIndices: the selection mapped through vertexMap
NewIndices(sel) == [i \in DOMAIN sel |-> NewIndexOf(sel, sel[i])]

\* the attributes the extraction copies: position always, normal and uv when
\* the source has them and at least one vertex was copied
CopiedAttrs(g, sel) ==
    {"position"} \cup
    (IF sel # <<>> THEN DOMAIN g.attrs \cap {"normal", "uv"} ELSE {})

\* the item size the extraction gives a copied attribute:
\* Float32BufferAttribute(newUvs, 2), and 3 for position and normal
CopiedItemSize(a) == IF a = "uv" THEN 2 ELSE 3

CompactedGeometry(id, g, sel) ==
    LET order == VertexOrder(sel)
    IN
    [id |-> id,
     attrs |-> [a \in CopiedAttrs(g, sel) |->
                  [j \in DOMAIN order |-> g.attrs[a][order[j] + 1]]],
     itemSize |-> [a \in CopiedAttrs(g, sel) |-> CopiedItemSize(a)],
     indexed |-> TRUE,
     index |-> NewIndices(sel),
     groups |-> <<>>]

\* createSubGeometry(originalGeometry, triangleIndices)
CreateSubGeometry(id, originalGeometry, triangleIndices) ==
    CompactedGeometry(id, originalGeometry, triangleIndices)

----------------------------------------------------------------------------
(* Spatial subdivision *)

\* the axis with the largest extent, as a component number 1..3
MaxAxis(size) ==
    IF size[1] > size[2] THEN (IF size[1] > size[3] THEN 1 ELSE 3)
    ELSE (IF size[2] > size[3] THEN 2 ELSE 3)

\* vertices.sort((a, b) => a.value - b.value): stable, so ties keep index order
SortedVertices(g) ==
    LET n == PositionCount(g)
        ax == MaxAxis(BoxSize(GeometryBox(g)))
        val(i) == g.attrs.position[i + 1][ax]
        rank(i) == Cardinality({j \in 0..(n - 1) :
                       val(j) < val(i) \/ (val(j) = val(i) /\ j < i)})
    IN [r \in 1..n |-> CHOOSE i \in 0..(n - 1) : rank(i) = r - 1]

\* the triangles of a geometry as vertex triples, in buffer order
Triangles(g) ==
    IF g.indexed
    THEN [t \in 1..CeilDiv(Len(g.index), 3) |->
            <<g.index[3 * t - 2], g.index[3 * t - 1], g.index[3 * t]>>]
    ELSE [t \in 1..CeilDiv(PositionCount(g), 3) |->
            <<3 * t - 3, 3 * t - 2, 3 * t - 1>>]

Flatten3(ts) == [i \in 1..(3 * Len(ts)) |-> ts[((i - 1) \div 3) + 1][((i - 1) % 3) + 1]]

\* verticesPerPart
VerticesPerPart(g, numParts) == CeilDiv(PositionCount(g), numParts)

\* the vertices of part number part (0-based): a slice of the sorted vertices
PartSet(sorted, vpp, part) ==
    LET startIdx == part * vpp
        endIdx == Min2(startIdx + vpp, Len(sorted))
    IN {sorted[i] : i \in (startIdx + 1)..endIdx}

\* partTriangles: every triangle with at least one vertex in the part
PartTriangles(tris, ps) ==
    LET hit(t) == t[1] \in ps \/ t[2] \in ps \/ t[3] \in ps
    IN Flatten3(SelectSeq(tris, hit))

\* the triangle selections of the parts for which a mesh is produced, in part
\* order: the loop stops at the first part that starts past the last vertex and
\* skips a part without triangles
PartSelections(g, numParts) ==
    LET sorted == SortedVertices(g)
        tris == Triangles(g)
        vpp == VerticesPerPart(g, numParts)
        sel == [p \in 1..numParts |-> PartTriangles(tris, PartSet(sorted, vpp, p - 1))]
        live(p) == (p - 1) * vpp < Len(sorted) /\ sel[p] # <<>>
        keep == {p \in 1..numParts : live(p)}
    IN [i \in 1..Cardinality(keep) |->
          sel[CHOOSE p \in keep : Cardinality({q \in keep : q < p}) = i - 1]]

\* the material subdivideGeometry gives a part
SubdivisionMaterial(mesh) == mesh.material

\* subdivideGeometry(mesh, numParts) of the clone-based viewer; e names the
\* new geometries
subdivideGeometry(mesh, numParts, e) ==
    IF ~HasAttr(mesh.geometry, "position") THEN <<>>
    ELSE LET sels == PartSelections(mesh.geometry, numParts)
         IN [i \in DOMAIN sels |->
               MeshLike(CompactedGeometry(NewGeom(e, i), mesh.geometry, sels[i]),
                        SubdivisionMaterial(mesh), mesh)]

\* subdivideMesh(mesh, numParts) of the in-place viewer
subdivideMesh(mesh, numParts, e) ==
    IF ~HasAttr(mesh.geometry, "position") THEN <<mesh>>
    ELSE LET sels == PartSelections(mesh.geometry, numParts)
             subdivisions ==
               [i \in DOMAIN sels |->
                  MeshLike(CreateSubGeometry(NewGeom(e, i), mesh.geometry, sels[i]),
                           mesh.material, mesh)]
         IN IF Len(subdivisions) > 1 THEN subdivisions ELSE <<mesh>>

----------------------------------------------------------------------------
(* Clone-based viewer: material conversion *)

EmptyCache == <<>>

\* a convert that never consults the cache
ConvertUncached(st, m, e) ==
    LET safe == SafeMat(e, Len(st.created) + 1)
    IN [mat |-> safe,
        cache |-> (m :> safe) @@ st.cache,
        created |-> Append(st.created, safe)]

\* convert(m) inside toSafeMaterial: st carries safeMatCache (cache) and
\* createdMatsRef (created); e names the new material
Convert(st, m, e) ==
    IF m \in DOMAIN st.cache
    THEN [mat |-> st.cache[m], cache |-> st.cache, created |-> st.created]
    ELSE LET safe == SafeMat(e, Len(st.created) + 1)
         IN [mat |-> safe,
             cache |-> st.cache @@ (m :> safe),
             created |-> Append(st.created, safe)]

RECURSIVE toSafeMaterial(_, _, _)
\* toSafeMaterial(matIn): matIn.map(convert); the result carries the converted
\* materials in mats
toSafeMaterial(st, matIn, e) ==
    IF matIn = <<>> THEN [mats |-> <<>>, cache |-> st.cache, created |-> st.created]
    ELSE LET c == Convert(st, Head(matIn), e)
             r == toSafeMaterial(c, Tail(matIn), e)
         IN [mats |-> <<c.mat>> \o r.mats, cache |-> r.cache, created |-> r.created]

----------------------------------------------------------------------------
(* Clone-based viewer: the build effect *)

\* dir = centre - rootCentre; the fallback axis when lengthSq() < 1e-12;
\* normalised.  Centres are doubled, which changes neither test nor result.
ExplodeDirection(center2, rootCenter2) ==
    LET dir == VSub(center2, rootCenter2)
    IN IF LengthSq(dir) = 0 THEN <<0, 1, 0>> ELSE Normalize(dir)

\* the scalars of the addScaledVector calls, in thousandths
MultiOffsetDoubled(a) == a * AmountUnit * 2
MultiOffset(a) == a * AmountUnit
SpatialOffset(a) == (a * AmountUnit * 3) \div 2
FallbackOffset(a) == a * AmountUnit * 2
GroupOffset(a) == a * AmountUnit
FrameOffset(a) == a * AmountUnit

\* userData = { basePos, dir } followed by position.addScaledVector(dir, s)
Placed(m, dir, s, branch) ==
    [m EXCEPT !.userData = [set |-> TRUE, basePos |-> m.position, dir |-> dir],
              !.position = AddScaledVector(m.position, dir, s),
              !.branch = branch]

\* the geometry cloneMesh gives the clone
CloneGeometry(src) == src.geometry

\* cloneMesh(src): a new mesh on the source's geometry with a safe material
cloneMesh(st, src, e) ==
    LET c == toSafeMaterial(st, src.material, e)
    IN [mesh |-> MeshLike(CloneGeometry(src), c.mats, src),
        cache |-> c.cache, created |-> c.created]

RECURSIVE CaseA(_, _, _, _, _)
\* Case A: every mesh of the original is cloned and moved along its direction
CaseA(st, meshes, rootCw2, amt, e) ==
    IF meshes = <<>> THEN st
    ELSE LET src == Head(meshes)
             dir == ExplodeDirection(Center2(MeshBox(src)), rootCw2)
             c == cloneMesh(st, src, e)
             dst == Placed(c.mesh, dir, MultiOffset(amt), "multi")
         IN CaseA([st EXCEPT !.cache = c.cache, !.created = c.created,
                             !.children = Append(st.children, dst)],
                  Tail(meshes), rootCw2, amt, e)

\* Case B without groups, subdivision succeeded: the parts of subdivideGeometry
CaseSpatial(st, subdivided, rootCw2, amt) ==
    [st EXCEPT
       !.children =
          [i \in DOMAIN subdivided |->
             Placed(subdivided[i],
                    ExplodeDirection(Center2(MeshBox(subdivided[i])), rootCw2),
                    SpatialOffset(amt), "spatial")],
       !.extracted = {subdivided[i].geometry.id : i \in DOMAIN subdivided}]

\* Case B without groups, subdivision failed: the whole mesh is cloned.  A
\* single part that subdivideGeometry returned is dropped here: it is never
\* attached to the clone and never reaches the renderer.
CaseFallback(st, only, rootCw2, amt, e) ==
    LET c == cloneMesh(st, only, e)
        dir == ExplodeDirection(Center2(MeshBox(only)), rootCw2)
    IN [st EXCEPT !.cache = c.cache, !.created = c.created,
                  !.children = <<Placed(c.mesh, dir, FallbackOffset(amt), "fallback")>>]

\* srcIndices that stop one entry short of the group
GroupIndicesShort(geom, g) ==
    IF geom.indexed
    THEN SubSeq(geom.index, g.start + 1, Min2(g.start + g.count, Len(geom.index)) - 1)
    ELSE [i \in 1..(g.count - 1) |-> g.start + i - 1]

\* srcIndices of a group: a slice of the index buffer, or a run of vertices
GroupIndices(geom, g) ==
    IF geom.indexed
    THEN SubSeq(geom.index, g.start + 1, Min2(g.start + g.count, Len(geom.index)))
    ELSE [i \in 1..g.count |-> g.start + i - 1]

\* matIdx = g.materialIndex ?? 0
MaterialIndexOf(g) == IF g.materialIndex = <<>> THEN 0 ELSE g.materialIndex[1]

\* a lookup that falls back to the last material slot
GroupMaterialLast(origMaterials, matIdx) ==
    IF matIdx + 1 \in DOMAIN origMaterials THEN origMaterials[matIdx + 1]
    ELSE origMaterials[Len(origMaterials)]

\* origMaterials[matIdx] ?? origMaterials[0]
GroupMaterial(origMaterials, matIdx) ==
    IF matIdx + 1 \in DOMAIN origMaterials THEN origMaterials[matIdx + 1]
    ELSE origMaterials[1]

\* pos.getX(oi) on the first index of a group: a TypeError when the geometry
\* has no position attribute (pos is undefined)
GroupReadThrows(geom, g) ==
    ~HasAttr(geom, "position") /\ GroupIndices(geom, g) # <<>>

RECURSIVE CaseGroups(_, _, _, _, _)
\* Case B with groups: one compacted part per group; n is the group number
CaseGroups(st, only, n, amt, e) ==
    IF n > Len(only.geometry.groups) THEN st
    ELSE IF GroupReadThrows(only.geometry, only.geometry.groups[n])
    THEN [st EXCEPT !.thrown = TRUE]
    ELSE LET g == only.geometry.groups[n]
             sub == CompactedGeometry(NewGeom(e, n), only.geometry,
                                      GroupIndices(only.geometry, g))
             dirLocal == ExplodeDirection(Center2(GeometryBox(sub)),
                                          Center2(GeometryBox(only.geometry)))
             c == Convert(st, GroupMaterial(only.material, MaterialIndexOf(g)), e)
             subMesh == Placed(MeshLike(sub, <<c.mat>>, only), dirLocal,
                               GroupOffset(amt), "group")
         IN CaseGroups([st EXCEPT !.cache = c.cache, !.created = c.created,
                                  !.geoms = Append(st.geoms, sub.id),
                                  !.extracted = st.extracted \cup {sub.id},
                                  !.children = Append(st.children, subMesh)],
                       only, n + 1, amt, e)

\* the refs and the clone after disposeCurrent
EmptyBuild ==
    [cache |-> EmptyCache, created |-> <<>>, geoms |-> <<>>, children |-> <<>>,
     extracted |-> {}, thrown |-> FALSE]

\* a test that accepts a single part as a successful subdivision
SubdivisionNonEmpty(subdivided) == Len(subdivided) >= 1

\* if (subdividedMeshes.length > 1)
SubdivisionSucceeded(subdivided) == Len(subdivided) > 1

\* a Case A that needs three meshes
MultiMeshThree(meshes) == Len(meshes) >= 3

\* if (meshes.length >= 2): Case A, whatever groups the geometries declare
MultiMesh(meshes) == Len(meshes) >= 2

\* the part of the build effect after "if (!explode) return": the children of
\* cloneRoot, the refs, and the geometries created on the way
BuildClone(meshes, amt, numParts, e) ==
    LET rootCw2 == Center2(BoxOfMeshes(meshes))
    IN IF MultiMesh(meshes) THEN CaseA(EmptyBuild, meshes, rootCw2, amt, e)
       ELSE IF Len(meshes) = 1
       THEN LET only == meshes[1]
            IN IF Len(only.geometry.groups) = 0
               THEN LET subdivided == subdivideGeometry(only, numParts, e)
                    IN IF SubdivisionSucceeded(subdivided)
                       THEN CaseSpatial(EmptyBuild, subdivided, rootCw2, amt)
                       ELSE CaseFallback(EmptyBuild, only, rootCw2, amt, e)
               ELSE CaseGroups(EmptyBuild, only, 1, amt, e)
       ELSE EmptyBuild

----------------------------------------------------------------------------
(* Clone-based viewer: state and actions *)

\* explodedGroup: null, or a cloneRoot with its children; id tells clones apart
\* and root names the origRoot the clone was built from
NullGroup == [null |-> TRUE, id |-> 0, root |-> "", children |-> <<>>]
CloneRoot(e, root, children) ==
    [null |-> FALSE, id |-> e, root |-> root, children |-> children]
NoneQueued == [queued |-> FALSE, value |-> NullGroup]

\* a disposeCurrent without the traversal of explodedGroup
NoTraversalDisposals(group) == {}

\* the geometries the traversal of explodedGroup in disposeCurrent disposes
TraversalDisposals(group) ==
    {group.children[i].geometry.id : i \in DOMAIN group.children}

\* the geometries disposeCurrent calls dispose() on
DisposedGeometries(group, geoms) == TraversalDisposals(group) \cup Range(geoms)

\* a disposeCurrent that also disposes the materials found by the traversal
DisposedWithTraversal(group, mats) ==
    Range(mats) \cup UNION {Range(group.children[i].material) : i \in DOMAIN group.children}

\* the materials disposeCurrent calls dispose() on
DisposedMaterials(group, mats) == Range(mats)

\* a render: pending state updates are applied
Committed == IF queuedGroup.queued THEN queuedGroup.value ELSE explodedGroup

\* a prop in the dependency list of the build effect changed: React renders
\* (after flushing the scheduled effect) and schedules the effect again
DepsChanged(what) ==
    /\ ~effectPending
    /\ explodedGroup' = Committed
    /\ queuedGroup' = NoneQueued
    /\ effectPending' = TRUE
    /\ lastChange' = what
    /\ UNCHANGED <<safeMatCache, createdMatsRef, createdGeomsRef, prevAmount, epoch,
                   disposedGeoms, disposedMats, extractedGeoms, convertedMats>>

\* isSkinned(o): o.isSkinnedMesh === true
isSkinned(m) == m.isSkinnedMesh

RECURSIVE SumOfGroupCounts(_)
SumOfGroupCounts(meshes) ==
    IF meshes = <<>> THEN 0
    ELSE Len(Head(meshes).geometry.groups) + SumOfGroupCounts(Tail(meshes))

\* detectCapability(root).canExplode, by the rule of the specification:
\* meshCount > 1 OR sumOfGroupCounts > 1 OR anySkinnedWithMultipleGroups
CanExplode(meshes) ==
    \/ Len(meshes) > 1
    \/ SumOfGroupCounts(meshes) > 1
    \/ \E i \in DOMAIN meshes :
          isSkinned(meshes[i]) /\ Len(meshes[i].geometry.groups) > 1

\* an Explode checkbox that is gated by the capability of the scene
ExplodeToggleGated(meshes) == CanExplode(meshes)

\* the Explode checkbox carries no disabled attribute
ExplodeToggleEnabled(meshes) == TRUE

\* disabled={!explode} of the Amount and Parts sliders
SliderEnabled(ex) == ex

\* the Explode checkbox
SetExplode ==
    /\ lifecycle = "mounted"
    /\ viewer = "clone"
    /\ ExplodeToggleEnabled(SceneMeshes(scene))
    /\ changes < MaxChanges
    /\ explode' = ~explode
    /\ changes' = changes + 1
    /\ DepsChanged("explode")
    /\ UNCHANGED <<lifecycle, viewer, scene, loads, amount, subdivisionParts>>
    /\ UNCHANGED inplaceVars
    /\ UNCHANGED simpleVars
    /\ UNCHANGED poseVars

\* the Amount slider (disabled while explode is off)
SetAmount ==
    /\ lifecycle = "mounted"
    /\ viewer = "clone"
    /\ changes < MaxChanges
    /\ SliderEnabled(explode)
    /\ \E a \in Amounts \ {amount} : amount' = a
    /\ changes' = changes + 1
    /\ DepsChanged("amount")
    /\ UNCHANGED <<lifecycle, viewer, scene, loads, explode, subdivisionParts>>
    /\ UNCHANGED inplaceVars
    /\ UNCHANGED simpleVars
    /\ UNCHANGED poseVars

\* the Parts slider (disabled while explode is off): not a dependency of the
\* build effect, so the component renders and nothing else happens
SetSubdivisionParts ==
    /\ lifecycle = "mounted"
    /\ viewer = "clone"
    /\ changes < MaxChanges
    /\ SliderEnabled(explode)
    /\ ~effectPending
    /\ \E n \in PartsChoices \ {subdivisionParts} : subdivisionParts' = n
    /\ changes' = changes + 1
    /\ explodedGroup' = Committed
    /\ queuedGroup' = NoneQueued
    /\ UNCHANGED <<lifecycle, viewer, scene, loads, explode, amount, effectPending, lastChange,
                   safeMatCache, createdMatsRef, createdGeomsRef, prevAmount, epoch,
                   disposedGeoms, disposedMats, extractedGeoms, convertedMats>>
    /\ UNCHANGED inplaceVars
    /\ UNCHANGED simpleVars
    /\ UNCHANGED poseVars

\* url changes: useLoader returns another scene and origRoot is a new clone
LoadAsset ==
    /\ lifecycle = "mounted"
    /\ viewer = "clone"
    /\ loads < MaxLoads
    /\ scene' = NextScene(scene)
    /\ loads' = loads + 1
    /\ DepsChanged("asset")
    /\ UNCHANGED <<lifecycle, viewer, changes, explode, amount, subdivisionParts>>
    /\ UNCHANGED inplaceVars
    /\ UNCHANGED simpleVars
    /\ UNCHANGED poseVars

\* the build effect, deps [explode, amount, origRoot]: disposeCurrent, then the
\* exploded clone when explode is on
BuildEffect ==
    /\ lifecycle = "mounted"
    /\ viewer = "clone"
    /\ effectPending
    /\ LET e == epoch + 1
           built == IF explode
                    THEN BuildClone(SceneMeshes(scene), amount, subdivisionParts, e)
                    ELSE EmptyBuild
           next == IF explode /\ ~built.thrown
                   THEN CloneRoot(e, scene, built.children) ELSE NullGroup
       IN /\ disposedGeoms' =
                disposedGeoms \cup DisposedGeometries(explodedGroup, createdGeomsRef)
          /\ disposedMats' =
                disposedMats \cup DisposedMaterials(explodedGroup, createdMatsRef)
          /\ prevAmount' = amount
          /\ safeMatCache' = built.cache
          /\ createdMatsRef' = built.created
          /\ createdGeomsRef' = built.geoms
          /\ extractedGeoms' = extractedGeoms \cup built.extracted
          /\ convertedMats' = convertedMats \cup Range(built.created)
          /\ queuedGroup' = IF next = explodedGroup THEN NoneQueued
                            ELSE [queued |-> TRUE, value |-> next]
          /\ epoch' = e
          /\ lifecycle' = IF explode /\ built.thrown THEN "thrown" ELSE lifecycle
    /\ effectPending' = FALSE
    /\ UNCHANGED <<viewer, scene, loads, changes, explode, amount, subdivisionParts,
                   explodedGroup, lastChange>>
    /\ UNCHANGED inplaceVars
    /\ UNCHANGED simpleVars
    /\ UNCHANGED poseVars

\* the render that follows setExplodedGroup
Render ==
    /\ lifecycle = "mounted"
    /\ viewer = "clone"
    /\ queuedGroup.queued
    /\ explodedGroup' = queuedGroup.value
    /\ queuedGroup' = NoneQueued
    /\ UNCHANGED <<lifecycle, viewer, scene, loads, changes, explode, amount, subdivisionParts,
                   effectPending, lastChange, safeMatCache, createdMatsRef,
                   createdGeomsRef, prevAmount, epoch, disposedGeoms, disposedMats,
                   extractedGeoms, convertedMats>>
    /\ UNCHANGED inplaceVars
    /\ UNCHANGED simpleVars
    /\ UNCHANGED poseVars

\* m.position.copy(ud.basePos).addScaledVector(ud.dir, amount)
Repositioned(m, amt) ==
    IF m.userData.set
    THEN [m EXCEPT !.position = AddScaledVector(m.userData.basePos, m.userData.dir,
                                                FrameOffset(amt))]
    ELSE m

\* the useFrame callback of the committed render
Frame ==
    /\ lifecycle = "mounted"
    /\ viewer = "clone"
    /\ explode /\ ~explodedGroup.null
    /\ prevAmount # amount
    /\ explodedGroup' =
          [explodedGroup EXCEPT
             !.children = [i \in DOMAIN explodedGroup.children |->
                             Repositioned(explodedGroup.children[i], amount)]]
    /\ prevAmount' = amount
    /\ UNCHANGED <<lifecycle, viewer, scene, loads, changes, explode, amount, subdivisionParts,
                   queuedGroup, effectPending, lastChange, safeMatCache,
                   createdMatsRef, createdGeomsRef, epoch, disposedGeoms,
                   disposedMats, extractedGeoms, convertedMats>>
    /\ UNCHANGED inplaceVars
    /\ UNCHANGED simpleVars
    /\ UNCHANGED poseVars

----------------------------------------------------------------------------
(* In-place viewer *)

\* createExplodeEffect(root, k * 2): the amount in thousandths
InplaceAmount(kk) == kk * 2 * AmountUnit

\* the direction applyExplodeToMesh uses: recomputed from the current boxes
InplaceDirection(mesh, rootCenter2) ==
    Normalize(VSub(Center2(MeshBox(mesh)), rootCenter2))

\* an applyExplodeToMesh that stores originalPosition on every call
applyExplodeRestoring(mesh, rootCenter2, explodeAmount) ==
    LET direction == InplaceDirection(mesh, rootCenter2)
    IN [mesh EXCEPT
          !.userData = [set |-> TRUE, basePos |-> mesh.position, dir |-> Zero3],
          !.position = AddScaledVector(mesh.position, direction, explodeAmount)]

\* applyExplodeToMesh(mesh, rootCenter, explodeAmount).  Only originalPosition
\* is stored in userData; dir keeps the direction of the last call for the
\* properties and is never read back.
applyExplodeToMesh(mesh, rootCenter2, explodeAmount) ==
    LET direction == InplaceDirection(mesh, rootCenter2)
        originalPosition == IF mesh.userData.set THEN mesh.userData.basePos
                            ELSE mesh.position
    IN [mesh EXCEPT
          !.userData = [set |-> TRUE, basePos |-> originalPosition, dir |-> direction],
          !.position = AddScaledVector(originalPosition, direction, explodeAmount)]

\* a createExplodeEffect that subdivides the first mesh on every call
SubdivideAlways(meshes) == Len(meshes) >= 1

\* whether createExplodeEffect tries to subdivide
SubdivideWanted(meshes) == Len(meshes) = 1

\* createExplodeEffect(root, explodeAmount) on the meshes below root
createExplodeEffect(meshes, explodeAmount, e) ==
    LET rootCenter2 == Center2(BoxOfMeshes(meshes))
        subdivided == IF SubdivideWanted(meshes)
                      THEN subdivideMesh(meshes[1], InplaceParts, e)
                      ELSE <<>>
    IN IF Len(subdivided) > 1
       THEN \* parent.remove(mesh); every part is added and exploded
            Tail(meshes) \o
            [i \in DOMAIN subdivided |->
               applyExplodeToMesh([subdivided[i] EXCEPT !.branch = "spatial"],
                                  rootCenter2, explodeAmount)]
       ELSE [i \in DOMAIN meshes |->
               applyExplodeToMesh(meshes[i], rootCenter2, explodeAmount)]

\* the Explode slider of the in-place viewer
SetK ==
    /\ lifecycle = "mounted"
    /\ viewer = "inplace"
    /\ changes < MaxChanges
    /\ ~explodePending
    /\ \E v \in Amounts \ {k} : k' = v
    /\ changes' = changes + 1
    /\ explodePending' = TRUE
    /\ UNCHANGED <<lifecycle, viewer, scene, loads, rootMeshes, explodeCalls, boundsTrees>>
    /\ UNCHANGED cloneVars
    /\ UNCHANGED simpleVars
    /\ UNCHANGED poseVars

\* root.traverse(obj => isMesh(obj) && obj.geometry.disposeBoundsTree?.()):
\* the geometries of the meshes that are below root when the cleanup runs
BoundsTreeCleanup(meshes) == {meshes[i].geometry.id : i \in DOMAIN meshes}

\* obj.geometry.computeBoundsTree?.() on every mesh below root
BoundsTreeEffect(meshes) == {meshes[i].geometry.id : i \in DOMAIN meshes}

\* url changes: root is a new clone of another scene; the cleanup of the
\* bounds-tree effect of the old root runs with the commit
LoadRoot ==
    /\ lifecycle = "mounted"
    /\ viewer = "inplace"
    /\ loads < MaxLoads
    /\ ~explodePending
    /\ scene' = NextScene(scene)
    /\ rootMeshes' = SceneMeshes(NextScene(scene))
    /\ boundsTrees' = boundsTrees \ BoundsTreeCleanup(rootMeshes)
    /\ loads' = loads + 1
    /\ explodePending' = TRUE
    /\ explodeCalls' = 0
    /\ UNCHANGED <<lifecycle, viewer, changes, k>>
    /\ UNCHANGED cloneVars
    /\ UNCHANGED simpleVars
    /\ UNCHANGED poseVars

\* the passive effects of a commit: the bounds-tree effect, deps [root], when
\* root is new, then the explode effect, deps [root, k]
ExplodeEffect ==
    /\ lifecycle = "mounted"
    /\ viewer = "inplace"
    /\ explodePending
    /\ boundsTrees' = IF explodeCalls = 0
                      THEN boundsTrees \cup BoundsTreeEffect(rootMeshes)
                      ELSE boundsTrees
    /\ rootMeshes' = createExplodeEffect(rootMeshes, InplaceAmount(k), epoch + 1)
    /\ epoch' = epoch + 1
    /\ explodeCalls' = explodeCalls + 1
    /\ explodePending' = FALSE
    /\ UNCHANGED <<lifecycle, viewer, scene, loads, changes, k>>
    /\ UNCHANGED <<explode, amount, subdivisionParts, explodedGroup, queuedGroup,
                   effectPending, lastChange, safeMatCache, createdMatsRef,
                   createdGeomsRef, prevAmount, disposedGeoms, disposedMats,
                   extractedGeoms, convertedMats>>
    /\ UNCHANGED simpleVars
    /\ UNCHANGED poseVars

----------------------------------------------------------------------------
(* Simple slider viewer *)

\* the scalar of addScaledVector(o.userData.dir, 0.6 * k), in thousandths
SimpleOffset(kk) == (kk * AmountUnit * 6) \div 10

\* o.userData.dir = c.sub(rootC).normalize(): no fallback axis
SimpleDirection(mesh, rootC2) == Normalize(VSub(Center2(MeshBox(mesh)), rootC2))

\* the prepare effect on one mesh: startPos (kept in basePos) and dir
Prepare(mesh, rootC2) ==
    [mesh EXCEPT !.userData = [set |-> TRUE, basePos |-> mesh.position,
                               dir |-> SimpleDirection(mesh, rootC2)]]

\* the frame callback on one object: skipped without startPos and dir
SimplePlaced(o, kk) ==
    IF o.userData.set
    THEN [o EXCEPT !.position = AddScaledVector(o.userData.basePos, o.userData.dir,
                                                SimpleOffset(kk))]
    ELSE o

\* the Explode slider of the overlay: setK
SimpleSetK ==
    /\ lifecycle = "mounted"
    /\ viewer = "simple"
    /\ changes < MaxChanges
    /\ ~explodePending
    /\ \E v \in Amounts \ {k} : k' = v
    /\ changes' = changes + 1
    /\ UNCHANGED <<lifecycle, viewer, scene, loads, rootMeshes, explodePending,
                   explodeCalls, boundsTrees, prev>>
    /\ UNCHANGED cloneVars
    /\ UNCHANGED poseVars

\* url changes: root is a new clone of another scene; the cleanup of the
\* prepare effect of the old root runs with the commit.  k and the ref prev
\* belong to the component and stay.
SimpleLoadRoot ==
    /\ lifecycle = "mounted"
    /\ viewer = "simple"
    /\ loads < MaxLoads
    /\ ~explodePending
    /\ scene' = NextScene(scene)
    /\ rootMeshes' = SceneMeshes(NextScene(scene))
    /\ boundsTrees' = boundsTrees \ BoundsTreeCleanup(rootMeshes)
    /\ loads' = loads + 1
    /\ explodePending' = TRUE
    /\ UNCHANGED <<lifecycle, viewer, changes, k, explodeCalls, prev>>
    /\ UNCHANGED cloneVars
    /\ UNCHANGED poseVars

\* the prepare effect, deps [root]
PrepareEffect ==
    /\ lifecycle = "mounted"
    /\ viewer = "simple"
    /\ explodePending
    /\ rootMeshes' = [i \in DOMAIN rootMeshes |->
                        Prepare(rootMeshes[i], Center2(BoxOfMeshes(rootMeshes)))]
    /\ boundsTrees' = boundsTrees \cup BoundsTreeEffect(rootMeshes)
    /\ explodePending' = FALSE
    /\ UNCHANGED <<lifecycle, viewer, scene, loads, changes, k, explodeCalls, prev>>
    /\ UNCHANGED cloneVars
    /\ UNCHANGED poseVars

\* the useFrame callback: returns at once when prev.current === k
SimpleFrame ==
    /\ lifecycle = "mounted"
    /\ viewer = "simple"
    /\ prev # k
    /\ rootMeshes' = [i \in DOMAIN rootMeshes |-> SimplePlaced(rootMeshes[i], k)]
    /\ prev' = k
    /\ UNCHANGED <<lifecycle, viewer, scene, loads, changes, k, explodePending,
                   explodeCalls, boundsTrees>>
    /\ UNCHANGED cloneVars
    /\ UNCHANGED poseVars

----------------------------------------------------------------------------
(* Unmount *)

\* the page is left: the cleanups of the effects run.  The build effect of the
\* clone-based viewer returns no cleanup; the bounds-tree effect of the
\* in-place viewer and the prepare effect of the simple viewer dispose the
\* trees of the meshes below root.
Unmount ==
    /\ lifecycle = "mounted"
    /\ lifecycle' = "unmounted"
    /\ boundsTrees' = IF viewer \in {"inplace", "simple"}
                      THEN boundsTrees \ BoundsTreeCleanup(rootMeshes)
                      ELSE boundsTrees
    /\ UNCHANGED <<viewer, scene, loads, changes, k, rootMeshes, explodePending,
                   explodeCalls>>
    /\ UNCHANGED cloneVars
    /\ UNCHANGED simpleVars
    /\ UNCHANGED poseVars

----------------------------------------------------------------------------
(* Normalization of the root *)

\* the settings prop: the object handed over (id) with its optional fields,
\* each kept as a sequence that is empty when the field is absent
Settings(id, yUp, scale) == [id |-> id, yUp |-> yUp, scale |-> scale]

\* settings: { yUp: true, camera: ... } of the models of the gallery
DefaultSettings == Settings(0, <<TRUE>>, <<>>)

\* values of settings.yUp and settings.scale that are sampled
YUpChoices == {<<>>, <<TRUE>>, <<FALSE>>}
ScaleChoices == {<<>>, <<2>>}

\* settings?.yUp === false
YUpIsFalse(st) == st.yUp = <<FALSE>>

\* settings?.scale ?? 1
ScaleOf(st) == IF st.scale = <<>> THEN 1 ELSE st.scale[1]

\* the parent renders with another settings object: the dependency list
\* [root, settings] of the normalization effect has changed
SetSettings ==
    /\ lifecycle = "mounted"
    /\ viewer \in Viewers
    /\ settings.id < MaxSettings
    /\ \E y \in YUpChoices, sc \in ScaleChoices :
          settings' = Settings(settings.id + 1, y, sc)
    /\ normalizePending' = TRUE
    /\ UNCHANGED <<viewer, scene, loads, changes, lifecycle, rootMeshes,
                   rootTurns, rootScale>>
    /\ UNCHANGED engineVars

\* the normalization effect: rotateX when yUp is false, scale.setScalar
NormalizeEffect ==
    /\ lifecycle = "mounted"
    /\ viewer \in Viewers
    /\ normalizePending
    /\ rootTurns' = IF YUpIsFalse(settings) THEN rootTurns + 1 ELSE rootTurns
    /\ rootScale' = ScaleOf(settings)
    /\ normalizePending' = FALSE
    /\ UNCHANGED <<viewer, scene, loads, changes, lifecycle, rootMeshes, settings>>
    /\ UNCHANGED engineVars

\* Model of Thumbnail3D: the memo clones gltf.scene, rotates the clone when
\* yUp === false and scales it; yUp and scale arrive as values, with the
\* defaults of the gallery page
ThumbnailGroup(st) ==
    [turns |-> IF YUpIsFalse(st) THEN 1 ELSE 0, scale |-> ScaleOf(st)]

\* the gallery renders the thumbnail with other settings: the memo, deps
\* [gltf, scale, yUp], makes a new group when one of the two values changed
ThumbnailSetSettings ==
    /\ lifecycle = "mounted"
    /\ viewer = "thumbnail"
    /\ settings.id < MaxSettings
    /\ \E y \in YUpChoices, sc \in ScaleChoices :
          /\ settings' = Settings(settings.id + 1, y, sc)
          /\ IF ThumbnailGroup(settings') # ThumbnailGroup(settings)
             THEN /\ rootTurns' = ThumbnailGroup(settings').turns
                  /\ rootScale' = ThumbnailGroup(settings').scale
             ELSE UNCHANGED <<rootTurns, rootScale>>
    /\ UNCHANGED <<viewer, scene, loads, changes, lifecycle, rootMeshes,
                   normalizePending>>
    /\ UNCHANGED engineVars

\* url changes: the root is a new clone of another gltf.scene.  The viewers
\* schedule the normalization effect; the thumbnail normalizes in its memo.
ReplaceRoot ==
    /\ lifecycle = "mounted"
    /\ loads < MaxLoads
    /\ scene' = NextScene(scene)
    /\ loads' = loads + 1
    /\ rootMeshes' = IF viewer \in {"inplace", "simple"}
                     THEN SceneMeshes(NextScene(scene))
                     ELSE rootMeshes
    /\ IF viewer = "thumbnail"
       THEN /\ rootTurns' = ThumbnailGroup(settings).turns
            /\ rootScale' = ThumbnailGroup(settings).scale
            /\ UNCHANGED normalizePending
       ELSE /\ rootTurns' = 0
            /\ rootScale' = LoadedScale
            /\ normalizePending' = TRUE
    /\ UNCHANGED <<viewer, changes, lifecycle, settings>>
    /\ UNCHANGED engineVars

----------------------------------------------------------------------------
(* Specification *)

\* the engine after mount
InitEngine ==
    /\ scene \in SceneNames
    /\ loads = 0
    /\ changes = 0
    /\ lifecycle = "mounted"
    /\ boundsTrees = {}
    /\ explode = FALSE
    /\ amount = DefaultAmount
    /\ subdivisionParts = DefaultParts
    /\ explodedGroup = NullGroup
    /\ queuedGroup = NoneQueued
    /\ effectPending = (viewer = "clone")
    /\ lastChange = "mount"
    /\ safeMatCache = EmptyCache
    /\ createdMatsRef = <<>>
    /\ createdGeomsRef = <<>>
    /\ prevAmount = DefaultAmount
    /\ epoch = 0
    /\ disposedGeoms = {}
    /\ disposedMats = {}
    /\ extractedGeoms = {}
    /\ convertedMats = {}
    /\ k = 0
    /\ rootMeshes = IF viewer \in {"inplace", "simple"} THEN SceneMeshes(scene)
                    ELSE <<>>
    /\ explodePending = (viewer \in {"inplace", "simple"})
    /\ explodeCalls = 0
    /\ prev = k

\* the page of a model of the gallery: its settings leave yUp true and give no
\* scale, so the normalization effect leaves the root as it was loaded
Init ==
    /\ viewer \in Viewers
    /\ InitEngine
    /\ settings = DefaultSettings
    /\ rootTurns = 0
    /\ rootScale = LoadedScale
    /\ normalizePending = FALSE

Next ==
    \/ SetExplode
    \/ SetAmount
    \/ SetSubdivisionParts
    \/ LoadAsset
    \/ BuildEffect
    \/ Render
    \/ Frame
    \/ SetK
    \/ LoadRoot
    \/ ExplodeEffect
    \/ SimpleSetK
    \/ SimpleLoadRoot
    \/ PrepareEffect
    \/ SimpleFrame
    \/ Unmount

Spec == Init /\ [][Next]_vars

\* The normalization of the root on its own: a component is mounted with any
\* settings, and the settings and the asset change while the engine rests.
InitNormalize ==
    /\ viewer \in Viewers \cup {"thumbnail"}
    /\ InitEngine
    /\ \E y \in YUpChoices, sc \in ScaleChoices : settings = Settings(0, y, sc)
    /\ rootTurns = IF viewer = "thumbnail" THEN ThumbnailGroup(settings).turns ELSE 0
    /\ rootScale = IF viewer = "thumbnail" THEN ThumbnailGroup(settings).scale
                   ELSE LoadedScale
    /\ normalizePending = (viewer \in Viewers)

NextNormalize ==
    \/ SetSettings
    \/ ThumbnailSetSettings
    \/ ReplaceRoot
    \/ NormalizeEffect

SpecNormalize == InitNormalize /\ [][NextNormalize]_vars

----------------------------------------------------------------------------
(* Properties *)

\* the exploded clone as of the latest build: the queued one when a render is
\* still to come
Current == Committed

GeomsOf(group) == {group.children[i].geometry.id : i \in DOMAIN group.children}
MatsOf(group) == UNION {Range(group.children[i].material) : i \in DOMAIN group.children}
Positions(ms) == [i \in DOMAIN ms |-> ms[i].position]

\* the mesh of the loaded asset a part was made from
SourceOf(root, part, i) ==
    IF part.branch \in {"multi", "source"} THEN SceneMeshes(root)[i]
    ELSE SceneMeshes(root)[1]

\* C1: the explode engine never disposes a geometry of the original scene:
\* dispose is called only on geometries the engine extracted, and no part of
\* an exploded clone shares its geometry with the original scene.
C1_OriginalGeometryUntouched ==
    viewer = "clone" =>
        /\ disposedGeoms \subseteq extractedGeoms
        /\ \A id \in disposedGeoms : ~IsOriginal(id)
        /\ \A id \in GeomsOf(Current) : ~IsOriginal(id)

\* C2: once the parts are built, a change of amount only repositions them: no
\* step that follows an amount change creates or disposes a geometry or a
\* material.
C2_AmountOnlyRepositions ==
    [][ (viewer = "clone" /\ lastChange = "amount" /\ lastChange' = "amount") =>
           /\ extractedGeoms' = extractedGeoms
           /\ convertedMats' = convertedMats
           /\ disposedGeoms' = disposedGeoms
           /\ disposedMats' = disposedMats
           /\ createdGeomsRef' = createdGeomsRef
           /\ createdMatsRef' = createdMatsRef ]_vars

\* the number of meshes under a freshly loaded root after one call
PartsAfterFirstCall(root) == Len(createExplodeEffect(SceneMeshes(root), 0, 1))

\* C3: partitioning runs at most once per loaded root: after any number of
\* calls of createExplodeEffect the root holds as many meshes as after the
\* first call, and no geometry appears twice.
C3_PartitionOnce ==
    (viewer = "inplace" /\ explodeCalls >= 1) =>
        /\ Len(rootMeshes) = PartsAfterFirstCall(scene)
        /\ \A i, j \in DOMAIN rootMeshes :
              rootMeshes[i].geometry.id = rootMeshes[j].geometry.id => i = j

\* a root split into parts has gone through three calls with changing amounts
C3_Witness ==
    /\ viewer = "inplace"
    /\ explodeCalls >= 3
    /\ k # 0
    /\ Len(rootMeshes) > 1
    /\ \A i \in DOMAIN rootMeshes : rootMeshes[i].branch = "spatial"

\* C4: with amount 0 applied after preparation every part is where its source
\* mesh was before the first offset computation, whatever amounts came before.
C4_ZeroRestores ==
    /\ (viewer = "clone" /\ explode /\ amount = 0 /\ prevAmount = 0) =>
          \A i \in DOMAIN Current.children :
             Current.children[i].position =
                SourceOf(Current.root, Current.children[i], i).position
    /\ (viewer = "inplace" /\ explodeCalls >= 1 /\ k = 0 /\ ~explodePending) =>
          \A i \in DOMAIN rootMeshes :
             rootMeshes[i].position = SourceOf(scene, rootMeshes[i], i).position

\* amount 0 has been applied to a root that was exploded with other amounts
C4_Witness ==
    /\ viewer = "inplace"
    /\ k = 0
    /\ ~explodePending
    /\ explodeCalls >= 3
    /\ Len(rootMeshes) > 1

\* C5: base position and direction of a part are recorded once, so a part's
\* position depends only on the last amount: it is the position one call with
\* that amount gives on the freshly loaded root.
C5_LastAmountDecides ==
    (viewer = "inplace" /\ explodeCalls >= 1 /\ ~explodePending) =>
        Positions(rootMeshes) =
           Positions(createExplodeEffect(SceneMeshes(scene), InplaceAmount(k), 1))

\* radius of the root: half the diagonal of its bounding box, doubled.  The
\* catalogue lies on the x axis, so the diagonal is the x extent.
Radius2(root) == BoxSize(BoxOfMeshes(SceneMeshes(root)))[1]

\* amount * radius in thousandths, amount in hundredths
RadiusDistance(a, root) == (a * Radius2(root)) \div 200

\* the parts of the multi-mesh clone are placed for the current amount
MultiPlaced(group) ==
    /\ viewer = "clone"
    /\ prevAmount = amount
    /\ ~group.null
    /\ \A i \in DOMAIN group.children : group.children[i].branch = "multi"

\* C6 as stated: every part is displaced along its direction by
\* amount * radius of the root's bounding box.
C6_RadiusScaled ==
    MultiPlaced(Current) =>
        \A i \in DOMAIN Current.children :
           LET part == Current.children[i]
           IN part.position =
                 AddScaledVector(part.userData.basePos, part.userData.dir,
                                 RadiusDistance(amount, Current.root))

\* C6 amended: every part of the multi-mesh clone is displaced along its
\* direction by amount itself, whatever the root's bounding box; two meshes at
\* (-1,0,0) and (1,0,0) with amount 0.5 are placed at (-1.5,0,0), (1.5,0,0).
C6_AmountScaled ==
    MultiPlaced(Current) =>
        /\ \A i \in DOMAIN Current.children :
              LET part == Current.children[i]
              IN /\ part.userData.basePos = SceneMeshes(Current.root)[i].position
                 /\ part.position =
                       AddScaledVector(part.userData.basePos, part.userData.dir,
                                       amount * AmountUnit)
        /\ (Current.root = "pair" /\ amount = 50) =>
              Positions(Current.children) = <<X(-1500), X(1500)>>

\* the two meshes at (-1,0,0) and (1,0,0) are exploded with amount 0.5
C6_Witness ==
    /\ MultiPlaced(Current)
    /\ Current.root = "pair"
    /\ amount = 50
    /\ Len(Current.children) = 2

\* C7: every mesh of the exploded clone carries materials made by
\* toSafeMaterial and none of the original scene.
C7_OnlySafeMaterials ==
    viewer = "clone" =>
        \A m \in MatsOf(Current) : m \in convertedMats /\ ~IsOriginal(m)

\* the source materials of a part, in the order of its material slots
SourceMaterials(root, part, i) ==
    IF part.branch = "group"
    THEN <<GroupMaterial(SceneMeshes(root)[1].material,
                         MaterialIndexOf(SceneMeshes(root)[1].geometry.groups[i]))>>
    ELSE SourceOf(root, part, i).material

\* C8: between two disposals toSafeMaterial is a memo: one safe material per
\* source material, the same one on every request, different ones for
\* different sources.
C8_Memoized ==
    viewer = "clone" =>
        /\ \A a, b \in DOMAIN safeMatCache :
              safeMatCache[a] = safeMatCache[b] => a = b
        /\ Len(createdMatsRef) = Cardinality(DOMAIN safeMatCache)
        /\ Range(createdMatsRef) = {safeMatCache[a] : a \in DOMAIN safeMatCache}
        /\ \A i \in DOMAIN Current.children :
              LET part == Current.children[i]
                  src == SourceMaterials(Current.root, part, i)
              IN part.branch # "spatial" =>
                    /\ Len(part.material) = Len(src)
                    /\ \A j \in DOMAIN src :
                          /\ src[j] \in DOMAIN safeMatCache
                          /\ part.material[j] = safeMatCache[src[j]]

\* two clones made from meshes that share a source material share the one safe
\* material made for it
C8_Witness ==
    /\ viewer = "clone"
    /\ ~Current.null
    /\ Current.root = "pair"
    /\ Len(Current.children) = 2
    /\ Current.children[1].material = Current.children[2].material
    /\ Len(createdMatsRef) = 1

\* C9: dispose is called only on materials toSafeMaterial created, never on a
\* material of an original scene.
C9_SourceMaterialsKept ==
    viewer = "clone" =>
        /\ disposedMats \subseteq convertedMats
        /\ \A m \in disposedMats : ~IsOriginal(m)
        /\ \A m \in convertedMats : ~IsOriginal(m)

\* a clone whose parts carried materials has been disposed
C9_Witness ==
    /\ viewer = "clone"
    /\ ~explode
    /\ ~effectPending
    /\ disposedMats # {}
    /\ disposedGeoms # {}

ControlsLive ==
    /\ viewer = "clone"
    /\ lifecycle = "mounted"
    /\ ~effectPending
    /\ changes < MaxChanges

\* C11 as stated: canExplode follows the rule (false for one mesh with one
\* group, true for two meshes) and the explode controls are enabled only when
\* canExplode is true of the loaded scene.
C11_ControlsGated ==
    /\ ~CanExplode(SceneSingle)
    /\ CanExplode(ScenePair)
    /\ (ControlsLive /\ (ENABLED SetExplode \/ ENABLED SetAmount
                          \/ ENABLED SetSubdivisionParts))
          => CanExplode(SceneMeshes(scene))

\* C11 amended: the viewer detects no capability.  The Explode checkbox is
\* enabled for every scene, also for one mesh with one group, and the Amount
\* and Parts sliders are enabled exactly when explode is on.
C11_ControlsFollowToggle ==
    ControlsLive =>
        /\ ENABLED SetExplode
        /\ (ENABLED SetAmount) <=> explode
        /\ (ENABLED SetSubdivisionParts) <=> explode

\* explode is on for a scene of one mesh with one group, and the controls can
\* still be used
C11_Witness ==
    /\ ControlsLive
    /\ scene = "single"
    /\ explode
    /\ ~explodedGroup.null
    /\ Len(explodedGroup.children) = 1

\* the clone was built from a single mesh without groups
UngroupedSingle(group) ==
    /\ viewer = "clone"
    /\ ~group.null
    /\ Len(SceneMeshes(group.root)) = 1
    /\ Len(SceneMeshes(group.root)[1].geometry.groups) = 0

\* C12: spatial splitting of a single ungrouped mesh yields at most 8 parts;
\* with fewer than 2 parts the result is discarded: the clone then holds one
\* mesh on the whole, unsplit source geometry, no extracted geometry is kept,
\* and that mesh is displaced as one unit.
C12_SplitOrWhole ==
    UngroupedSingle(Current) =>
        LET only == SceneMeshes(Current.root)[1]
            parts == Current.children
        IN /\ Len(parts) >= 1
           /\ Len(parts) <= MaxParts
           /\ \/ /\ Len(parts) >= 2
                 /\ \A i \in DOMAIN parts :
                       /\ parts[i].branch = "spatial"
                       /\ parts[i].geometry.id # only.geometry.id
              \/ /\ Len(parts) = 1
                 /\ parts[1].branch = "fallback"
                 /\ parts[1].geometry = only.geometry
                 /\ createdGeomsRef = <<>>
                 /\ parts[1].userData.set
                 /\ parts[1].userData.basePos = only.position
                 /\ LengthSq(parts[1].userData.dir) = 1
                 /\ (prevAmount = amount /\ ~effectPending) =>
                       parts[1].position =
                          AddScaledVector(only.position, parts[1].userData.dir,
                                          FallbackOffset(amount))

\* a mesh whose subdivision gives one part only is exploded whole
C12_Witness ==
    /\ UngroupedSingle(Current)
    /\ Current.root = "lone"
    /\ Len(subdivideGeometry(SceneLone[1], subdivisionParts, 1)) = 1
    /\ Len(Current.children) = 1
    /\ amount > 0
    /\ Current.children[1].position # SceneLone[1].position

\* the Parts slider at its maximum gives eight parts
C12_EightParts ==
    /\ UngroupedSingle(Current)
    /\ Len(Current.children) = MaxParts

\* squared distance (of doubled centres) between the centre of a part placed
\* at pos and the centre of the assembly the clone was built from
CentreDistanceSq(group, part, pos) ==
    LengthSq(VSub(Center2(MeshBox([part EXCEPT !.position = pos])),
                  Center2(BoxOfMeshes(SceneMeshes(group.root)))))

\* C13: at amount 1 the centre of every part of the exploded clone is
\* strictly farther from the centre of the assembly than at amount 0, where
\* the part is at its base position: parts move outward.
C13_MovesOutward ==
    (viewer = "clone" /\ ~Current.null /\ amount = 100 /\ prevAmount = amount) =>
        \A i \in DOMAIN Current.children :
           LET part == Current.children[i]
           IN CentreDistanceSq(Current, part, part.position) >
                 CentreDistanceSq(Current, part, part.userData.basePos)

\* the centre of a part at its base position coincides with the centre of
\* the assembly
AtAssemblyCentre(group, part) ==
    CentreDistanceSq(group, part, part.userData.basePos) = 0

\* C14: every direction the engine records for a part is a unit vector, or
\* exactly the fallback axis when the part's centre coincides with the centre
\* of the assembly; it is never the zero vector.
C14_UnitOrFallback ==
    /\ (viewer = "clone" /\ ~Current.null) =>
          \A i \in DOMAIN Current.children :
             LET part == Current.children[i]
             IN /\ part.userData.set
                /\ LengthSq(part.userData.dir) = 1
                /\ (part.branch # "group" /\ AtAssemblyCentre(Current, part))
                      => part.userData.dir = <<0, 1, 0>>
    /\ (viewer = "inplace" /\ explodeCalls >= 1) =>
          \A i \in DOMAIN rootMeshes :
             /\ rootMeshes[i].userData.set
             /\ rootMeshes[i].userData.dir # Zero3
             /\ LengthSq(rootMeshes[i].userData.dir) = 1

\* the loaded asset has a mesh without a position attribute
NoPosition(m) == ~HasAttr(m.geometry, "position")

\* C15: a mesh whose geometry has no position attribute is never partitioned,
\* neither by the group split nor by the spatial split, and no error is
\* raised: the one part made from it carries the whole source geometry.
C15_BareMeshWhole ==
    LET src == SceneMeshes(scene)
    IN (\E i \in DOMAIN src : NoPosition(src[i])) =>
          /\ lifecycle # "thrown"
          /\ (viewer = "clone" /\ explode /\ ~effectPending) =>
                /\ ~Current.null
                /\ Len(Current.children) = Len(src)
                /\ \A i \in DOMAIN src :
                      NoPosition(src[i]) =>
                         /\ Current.children[i].geometry.id = src[i].geometry.id
                         /\ Current.children[i].userData.set
          /\ (viewer = "inplace" /\ explodeCalls >= 1) =>
                /\ Len(rootMeshes) = Len(src)
                /\ \A i \in DOMAIN src :
                      NoPosition(src[i]) =>
                         rootMeshes[i].geometry.id = src[i].geometry.id

\* C16: the picking index is built on every geometry right after it is
\* created, the original meshes and each partitioned part alike, and disposed
\* for every geometry that is discarded: every mesh below the root has an
\* index on its geometry while the viewer is mounted, and after unmount no
\* geometry holds an index.
C16_IndexFollowsGeometry ==
    viewer = "inplace" =>
        /\ (lifecycle = "mounted" /\ explodeCalls >= 1) =>
              \A i \in DOMAIN rootMeshes : rootMeshes[i].geometry.id \in boundsTrees
        /\ lifecycle = "unmounted" => boundsTrees = {}

\* the source vertices a group refers to
Referenced(geom, g) ==
    IF geom.indexed
    THEN {geom.index[j] : j \in {j \in DOMAIN geom.index :
                                    j > g.start /\ j <= g.start + g.count}}
    ELSE {v \in 0..(PositionCount(geom) - 1) : v >= g.start /\ v < g.start + g.count}

\* the clone was built from a single mesh with more than one group and a
\* position attribute
GroupedSingle(group) ==
    /\ viewer = "clone"
    /\ ~group.null
    /\ Len(SceneMeshes(group.root)) = 1
    /\ Len(SceneMeshes(group.root)[1].geometry.groups) > 1
    /\ HasAttr(SceneMeshes(group.root)[1].geometry, "position")

\* C17: for a single mesh (with positions) whose geometry declares n > 1
\* groups the split makes exactly n parts, part i from group i, and the
\* vertices a part carries are exactly the source vertices its group refers
\* to, each once: none is dropped.
C17_OnePartPerGroup ==
    GroupedSingle(Current) =>
        LET geom == SceneMeshes(Current.root)[1].geometry
            parts == Current.children
        IN /\ Len(parts) = Len(geom.groups)
           /\ \A i \in DOMAIN parts :
                 LET carried == parts[i].geometry.attrs.position
                     refs == Referenced(geom, geom.groups[i])
                 IN /\ parts[i].branch = "group"
                    /\ Range(carried) = {geom.attrs.position[v + 1] : v \in refs}
                    /\ Len(carried) = Cardinality(refs)

\* the two groups of a mesh, which share a vertex, have become two parts
C17_Witness ==
    /\ GroupedSingle(Current)
    /\ Current.root = "grouped"
    /\ Len(Current.children) = 2
    /\ Len(Current.children[1].geometry.attrs.position) = 3
    /\ Len(Current.children[2].geometry.attrs.position) = 3

\* a triangle of a geometry as the triple of its corner positions
Corners(g, t) ==
    <<g.attrs.position[t[1] + 1], g.attrs.position[t[2] + 1],
      g.attrs.position[t[3] + 1]>>

\* the numbers of the parts that hold triangle t of the source geometry
Holders(parts, src, t) ==
    {i \in DOMAIN parts :
        \E u \in Range(Triangles(parts[i].geometry)) :
           Corners(parts[i].geometry, u) = Corners(src, t)}

RECURSIVE TriangleTotal(_)
TriangleTotal(parts) ==
    IF parts = <<>> THEN 0
    ELSE Len(Triangles(Head(parts).geometry)) + TriangleTotal(Tail(parts))

\* the parts are those of a spatial split of the one mesh of the asset
SpatialParts(root, parts) ==
    /\ Len(parts) >= 2
    /\ \A i \in DOMAIN parts : parts[i].branch = "spatial"
    /\ Len(SceneMeshes(root)) = 1

\* every triangle of src is in exactly one of the parts, and the triangle
\* counts of the parts add up to that of src
Partitioned(parts, src) ==
    /\ \A t \in Range(Triangles(src)) : Cardinality(Holders(parts, src, t)) = 1
    /\ TriangleTotal(parts) = Len(Triangles(src))

\* C18: the spatial split assigns every triangle of the source mesh to exactly
\* one part: none is dropped, none is in two parts, and the triangle counts of
\* the parts sum to the triangle count of the source.
C18_TrianglesPartitioned ==
    /\ (viewer = "clone" /\ ~Current.null
          /\ SpatialParts(Current.root, Current.children)) =>
          Partitioned(Current.children, SceneMeshes(Current.root)[1].geometry)
    /\ (viewer = "inplace" /\ explodeCalls >= 1 /\ SpatialParts(scene, rootMeshes)) =>
          Partitioned(rootMeshes, SceneMeshes(scene)[1].geometry)

\* sub is the extraction of selection sel from src: the new index buffer has
\* the length of sel, maps equal source vertices to equal new indices and
\* different ones to different ones, numbers them 0..n-1 in first-seen order,
\* and new vertex j carries the values of the source vertex mapped to j
ExtractionOf(sub, src, sel) ==
    LET n == Cardinality(Range(sel))
    IN /\ sub.indexed
       /\ Len(sub.index) = Len(sel)
       /\ \A i \in DOMAIN sel : sub.index[i] >= 0 /\ sub.index[i] < n
       /\ \A i, j \in DOMAIN sel : (sel[i] = sel[j]) <=> (sub.index[i] = sub.index[j])
       /\ \A i \in DOMAIN sel :
             \A m \in 0..(sub.index[i] - 1) : \E j \in 1..(i - 1) : sub.index[j] = m
       /\ \A a \in DOMAIN sub.attrs :
             /\ Len(sub.attrs[a]) = n
             /\ \A i \in DOMAIN sel :
                   sub.attrs[a][sub.index[i] + 1] = src.attrs[a][sel[i] + 1]

\* the parts are the extractions of the selections the spatial split makes
\* with np parts
SpatialExtractions(parts, src, np) ==
    LET sels == PartSelections(src, np)
    IN /\ Len(sels) = Len(parts)
       /\ \A i \in DOMAIN parts : ExtractionOf(parts[i].geometry, src, sels[i])

\* C19: sub-geometry extraction maps the source vertices of a selection to
\* new indices 0..n-1 in first-seen order, n the number of distinct source
\* vertices; the new index buffer is the selection mapped entry by entry,
\* and new vertex j carries the attribute values of its source vertex.
C19_FirstSeenCompaction ==
    /\ GroupedSingle(Current) =>
          LET src == SceneMeshes(Current.root)[1].geometry
          IN \A i \in DOMAIN Current.children :
                ExtractionOf(Current.children[i].geometry, src,
                             GroupIndices(src, src.groups[i]))
    /\ (viewer = "clone" /\ ~Current.null
          /\ SpatialParts(Current.root, Current.children)) =>
          \E np \in MinParts..MaxParts :
             SpatialExtractions(Current.children,
                                SceneMeshes(Current.root)[1].geometry, np)
    /\ (viewer = "inplace" /\ explodeCalls >= 1 /\ SpatialParts(scene, rootMeshes)) =>
          SpatialExtractions(rootMeshes, SceneMeshes(scene)[1].geometry, InplaceParts)

\* a part of the in-place split holds two triangles that share a vertex: its
\* selection names a source vertex twice
C19_Witness ==
    /\ viewer = "inplace"
    /\ explodeCalls >= 1
    /\ SpatialParts(scene, rootMeshes)
    /\ \E i \in DOMAIN rootMeshes :
          LET g == rootMeshes[i].geometry
          IN /\ Len(g.index) = 6
             /\ Len(g.attrs.position) = 5
             /\ g.index[3] = g.index[4]

\* sub has exactly the attributes of src, each with the item size it has on
\* src and one item per compacted vertex
AttributesKept(sub, src) ==
    /\ DOMAIN sub.attrs = DOMAIN src.attrs
    /\ \A a \in DOMAIN src.attrs \cap DOMAIN sub.attrs :
          /\ sub.itemSize[a] = src.itemSize[a]
          /\ Len(sub.attrs[a]) = Cardinality(Range(sub.index))

\* C20: every named vertex attribute of the source geometry (skin indices and
\* skin weights too, not only position, normal and uv) is on the extracted
\* sub-geometry with the same item size and the compacted vertex count, and
\* an attribute the source lacks is absent from the result.
C20_AllAttributesKept ==
    /\ GroupedSingle(Current) =>
          \A i \in DOMAIN Current.children :
             AttributesKept(Current.children[i].geometry,
                            SceneMeshes(Current.root)[1].geometry)
    /\ (viewer = "inplace" /\ explodeCalls >= 1 /\ SpatialParts(scene, rootMeshes)) =>
          \A i \in DOMAIN rootMeshes :
             AttributesKept(rootMeshes[i].geometry, SceneMeshes(scene)[1].geometry)

\* the material slot a group selects: the one its materialIndex names, the
\* first when the group has no materialIndex or the mesh has no such slot
SelectedSlot(mesh, g) ==
    IF g.materialIndex # <<>> /\ (g.materialIndex[1] + 1) \in DOMAIN mesh.material
    THEN g.materialIndex[1] + 1
    ELSE 1

\* C21: in the group split the part built for a group carries the safe
\* conversion of the material at the group's materialIndex, and that of the
\* first material slot when the index is missing or names no slot of the mesh.
C21_GroupMaterialOrFirst ==
    GroupedSingle(Current) =>
        LET only == SceneMeshes(Current.root)[1]
        IN \A i \in DOMAIN Current.children :
              LET src == only.material[SelectedSlot(only, only.geometry.groups[i])]
              IN /\ src \in DOMAIN safeMatCache
                 /\ safeMatCache[src] \in convertedMats
                 /\ Current.children[i].material = <<safeMatCache[src]>>

\* a mesh with two material slots whose groups name slot 7 and no slot: both
\* parts carry the conversion of the first slot, the second slot is not used
C21_Witness ==
    /\ GroupedSingle(Current)
    /\ Current.root = "turned"
    /\ Len(Current.children) = 2
    /\ OrigMat(1) \in DOMAIN safeMatCache
    /\ OrigMat(2) \notin DOMAIN safeMatCache
    /\ \A i \in 1..2 : Current.children[i].material = <<safeMatCache[OrigMat(1)]>>

\* the geometries of a sequence of meshes, in order
GeometriesOf(ms) == [i \in DOMAIN ms |-> ms[i].geometry]

\* C22 as stated: every mesh (with positions) whose geometry declares more
\* than one group is replaced by its per-group parts, also when the scene holds
\* other meshes: no part of the exploded set carries such a mesh's whole
\* geometry, and the exploded set holds group parts.
C22_EveryGroupedMeshSplit ==
    /\ (viewer = "clone" /\ ~Current.null) =>
          \A i \in DOMAIN SceneMeshes(Current.root) :
             LET m == SceneMeshes(Current.root)[i]
             IN (Len(m.geometry.groups) > 1 /\ HasAttr(m.geometry, "position")) =>
                   /\ m.geometry.id \notin GeomsOf(Current)
                   /\ \E j \in DOMAIN Current.children :
                         Current.children[j].branch = "group"
    /\ (viewer = "inplace" /\ lifecycle = "mounted" /\ explodeCalls >= 1) =>
          \A i \in DOMAIN SceneMeshes(scene) :
             LET m == SceneMeshes(scene)[i]
             IN (Len(m.geometry.groups) > 1 /\ HasAttr(m.geometry, "position")) =>
                   \A j \in DOMAIN rootMeshes : rootMeshes[j].geometry.id # m.geometry.id

\* C22, amended: a mesh whose geometry declares more than one group is
\* replaced by its per-group parts only when it is the only mesh under the
\* root; when the root holds two or more meshes every mesh is exploded as a
\* whole unit on its own geometry, whatever groups it declares.
C22_GroupSplitOnlyWhenAlone ==
    /\ (viewer = "clone" /\ ~Current.null) =>
          LET src == SceneMeshes(Current.root)
              parts == Current.children
          IN /\ Len(src) >= 2 =>
                   /\ GeometriesOf(parts) = GeometriesOf(src)
                   /\ \A i \in DOMAIN parts : parts[i].branch = "multi"
             /\ GroupedSingle(Current) =>
                   /\ Len(parts) = Len(src[1].geometry.groups)
                   /\ \A i \in DOMAIN parts :
                         /\ parts[i].branch = "group"
                         /\ parts[i].geometry.id # src[1].geometry.id
    /\ (viewer = "inplace" /\ explodeCalls >= 1 /\ Len(SceneMeshes(scene)) >= 2) =>
          GeometriesOf(rootMeshes) = GeometriesOf(SceneMeshes(scene))

\* in a scene of two meshes the one with two groups is exploded whole
C22_Witness ==
    /\ viewer = "clone"
    /\ ~Current.null
    /\ Current.root = "pair"
    /\ Len(Current.children) = 2
    /\ Current.children[2].branch = "multi"
    /\ Len(Current.children[2].geometry.groups) = 2
    /\ Current.children[2].geometry.id = SceneMeshes("pair")[2].geometry.id

\* C23: for a single mesh the spatial split is the strategy when its geometry
\* declares no group or exactly one (the whole mesh is kept when that split
\* gives fewer than two parts), and the group split is used only when it
\* declares more than one group.
C23_SpatialUpToOneGroup ==
    (/\ viewer = "clone"
     /\ ~Current.null
     /\ Len(SceneMeshes(Current.root)) = 1
     /\ HasAttr(SceneMeshes(Current.root)[1].geometry, "position")) =>
        LET groups == SceneMeshes(Current.root)[1].geometry.groups
            parts == Current.children
        IN /\ Len(groups) <= 1 =>
                 \A i \in DOMAIN parts : parts[i].branch \in {"spatial", "fallback"}
           /\ Len(groups) > 1 =>
                 \A i \in DOMAIN parts : parts[i].branch = "group"

\* the root is Prepared: its parts have been made and their rest positions
\* recorded (in-place viewer), or its exploded clone exists (clone-based viewer)
Prepared ==
    \/ /\ viewer = "inplace"
       /\ explodeCalls >= 1
       /\ \A i \in DOMAIN rootMeshes : rootMeshes[i].userData.set
    \/ /\ viewer = "clone"
       /\ ~Current.null

\* what one preparation made: the parts and their rest positions, or the clone
PreparedParts ==
    IF viewer = "inplace"
    THEN [i \in DOMAIN rootMeshes |->
            <<rootMeshes[i].geometry.id, rootMeshes[i].userData.basePos>>]
    ELSE <<Current.id>>

\* the first offset computation for a root has run
FirstCallDone ==
    \/ viewer = "inplace" /\ explodeCalls >= 1
    \/ viewer = "clone" /\ lifecycle = "mounted" /\ explode /\ ~effectPending

\* C24: a root becomes Prepared with the first offset computation for it, also
\* when the amount of that call is 0, and while the asset stays the same it
\* neither returns to Unprepared nor is prepared a second time: what the
\* preparation made stays as it is.
C24_PreparedOnce ==
    /\ [](FirstCallDone => Prepared)
    /\ [][(Prepared /\ scene' = scene) =>
             (Prepared' /\ PreparedParts' = PreparedParts)]_vars

\* the mesh of the loaded asset that mesh i below the in-place root stands for
InplaceSourceOf(i) ==
    IF Len(SceneMeshes(scene)) = 1 THEN SceneMeshes(scene)[1] ELSE SceneMeshes(scene)[i]

\* C25: every part made from a skinned mesh, a per-group part as well as a
\* clone of the whole mesh, is itself skinned and bound to the skeleton of its
\* source: no skinned source is represented by a part that is not skinned.
C25_SkinnedPartsStaySkinned ==
    /\ (viewer = "clone" /\ ~Current.null) =>
          \A i \in DOMAIN Current.children :
             LET part == Current.children[i]
                 src == SourceOf(Current.root, part, i)
             IN isSkinned(src) =>
                   (isSkinned(part) /\ part.skeleton = src.skeleton)
    /\ viewer = "inplace" =>
          \A i \in DOMAIN rootMeshes :
             isSkinned(InplaceSourceOf(i)) =>
                (/\ isSkinned(rootMeshes[i])
                 /\ rootMeshes[i].skeleton = InplaceSourceOf(i).skeleton)

\* C26: the normalization is applied exactly once per loaded root: however
\* often the normalization effect has run, after settings updates or
\* re-execution, the root has been rotated at most once (once when yUp is
\* false), and its scale is the configured scale.
C26_NormalizedOnce ==
    /\ rootTurns <= 1
    /\ ~normalizePending =>
          /\ rootScale = ScaleOf(settings)
          /\ YUpIsFalse(settings) => rootTurns = 1

\* <primitive object={origRoot} visible={!explode} />
OriginalVisible(ex) == ~ex

\* {explode && explodedGroup && <primitive object={explodedGroup} visible />}
CloneRendered(ex, group) == ex /\ ~group.null

\* C27: in every rendered frame exactly one of the original scene and the
\* exploded clone is visible: the original if and only if explode is off, and
\* whenever explode is on an exploded clone is present and rendered.
C27_ExactlyOneVisible ==
    (viewer = "clone" /\ lifecycle = "mounted") =>
        /\ OriginalVisible(explode) <=> ~explode
        /\ OriginalVisible(explode) # CloneRendered(explode, explodedGroup)
        /\ explode => CloneRendered(explode, explodedGroup)

\* C28: the build path and the per-frame update path place a part at the same
\* position for the same amount: a part of a clone that was built with the
\* current amount stands where the frame callback would put it for that
\* amount, whatever branch made the part.
C28_BuildMatchesFrame ==
    (viewer = "clone" /\ ~Current.null /\ ~effectPending /\ prevAmount = amount) =>
        \A i \in DOMAIN Current.children :
           Current.children[i].position =
              Repositioned(Current.children[i], amount).position

\* the geometries and materials of the original scene
SceneGeoms(root) == {SceneMeshes(root)[i].geometry.id : i \in DOMAIN SceneMeshes(root)}
SceneMats(root) == UNION {Range(SceneMeshes(root)[i].material) : i \in DOMAIN SceneMeshes(root)}

\* C29: nothing that can be rendered in a frame references a disposed
\* geometry or material: at every point of every interleaving of frames with
\* the build effect and the render that installs the new exploded group, the
\* mounted exploded group, and the original scene while it is visible, hold
\* only geometries and materials on which dispose has not been called.
C29_NothingRenderedIsDisposed ==
    (viewer = "clone" /\ lifecycle = "mounted") =>
        /\ CloneRendered(explode, explodedGroup) =>
              /\ GeomsOf(explodedGroup) \cap disposedGeoms = {}
              /\ MatsOf(explodedGroup) \cap disposedMats = {}
        /\ OriginalVisible(explode) =>
              /\ SceneGeoms(scene) \cap disposedGeoms = {}
              /\ SceneMats(scene) \cap disposedMats = {}

\* the simple viewer has prepared its root and the frame callback has caught
\* up with the slider: a frame callback in this state returns at once, so the
\* state is the one every frame callback leaves from now on
SimpleSettled ==
    /\ viewer = "simple"
    /\ lifecycle = "mounted"
    /\ ~explodePending
    /\ prev = k

\* C30: in the simple viewer, after a frame callback that follows the
\* preparation every prepared mesh stands at startPos + dir * 0.6 * k for the
\* current slider value k, after any slider changes and after the root has
\* been replaced by a newly loaded asset.
C30_SliderPositions ==
    SimpleSettled =>
        \A i \in DOMAIN rootMeshes :
           /\ rootMeshes[i].userData.set
           /\ rootMeshes[i].position =
                 AddScaledVector(rootMeshes[i].userData.basePos,
                                 rootMeshes[i].userData.dir, SimpleOffset(k))

====
